---------------------------- MODULE Spec2Model ----------------------------
(***************************************************************************)
(* A model of the PINE client of pinethon: the class Pine of               *)
(* src/pycsx2/pcsx2.py (constructor, _init_socket, read, write and the     *)
(* request codec) and the socket-less class Pine of src/pinethon/pine.py.  *)
(*                                                                         *)
(* A Python bytes value is kept run-length encoded, as a sequence of runs  *)
(* [b |-> byte, n |-> count] in which neighbouring runs differ in b, so    *)
(* that a reply of MAX_IPC_SIZE bytes is a value TLC can hold.  The        *)
(* encoding loses nothing: B_len, B_at, B_cat, B_take and B_drop are       *)
(* len(), indexing, + and slicing of the bytes value it stands for.        *)
(***************************************************************************)
EXTENDS Integers, Sequences, FiniteSets, TLC

VARIABLES
    cls,          \* which class the client object is: "pycsx2" or "pinethon"
    ctor,         \* "new" before __init__, then "ok" or "InvalidSlot"
    slot_arg,     \* the slot handed to __init__
    slot,         \* self._slot / self.slot (NoSlot while unset)
    buffers,      \* TRUE once ret_buffer, ipc_buffer, batch_arg_place exist
    sock_state,   \* self._sock_state
    sock,         \* self._sock: the id of the handle it names (0: unset)
    open,         \* ids of the handles that are created and not closed
    nsock,        \* number of socket.socket() calls so far (the last id)
    conn,         \* the handle whose connection to the peer is up (0: none)
    wire,         \* requests sent on conn that the peer has not answered
    pending,      \* reply bytes the peer has yet to write
    inbuf,        \* reply bytes written by the peer, not yet received
    peer_closed,  \* the peer has closed its end of conn
    mem,          \* the peer's memory, cell -> byte
    faults,       \* number of times the peer or the transport departed from
                  \* the fake peer of the spec (it fails nothing, answers every
                  \* request in one piece and in time)
    ncalls,       \* number of read/write calls started
    pc,           \* per caller: "idle", "init", "send", "recv"
    op,           \* per caller: "read" or "write", the call in progress
    args,         \* per caller: the arguments of the call in progress
    request,      \* per caller: the local `request`
    end_length,   \* per caller: the local `end_length`
    result,       \* per caller: the local `result`
    connects,     \* per caller: _init_socket calls made by the current call
    sends,        \* per caller: sendall calls made by the current call
    ev,           \* per caller: the last transport event of the current call
    outcome,      \* per caller: how the last call ended ("none" while running)
    retval        \* per caller: what the last call returned

vars == <<cls, ctor, slot_arg, slot, buffers, sock_state, sock, open, nsock,
          conn, wire, pending, inbuf, peer_closed, mem, faults, ncalls,
          pc, op, args, request, end_length, result, connects, sends, ev,
          outcome, retval>>

client_vars == <<cls, ctor, slot_arg, slot, buffers>>
call_vars   == <<pc, op, args, request, end_length, result, connects, sends,
                 ev, outcome, retval>>

-----------------------------------------------------------------------------
(* Program constants *)

MAX_IPC_SIZE          == 650000
MAX_IPC_RETURN_SIZE   == 450000
MAX_BATCH_REPLY_COUNT == 50000
IPC_OK   == 0
IPC_FAIL == 255
DEFAULT_SLOT == 28011
MAX_SLOT     == 65536
RECV_SIZE    == 4096

\* IPCCommand: READ8..READ64 = 0..3, WRITE8..WRITE64 = 4..7
READ8  == 0
READ16 == 1
READ32 == 2
READ64 == 3
WRITE8  == 4
WRITE16 == 5
WRITE32 == 6
WRITE64 == 7

\* DataSize: INT8 = 1, INT16 = 2, INT32 = 4, INT64 = 8
DataSize == {1, 2, 4, 8}

-----------------------------------------------------------------------------
(* Bounds of the model *)

MaxCalls  == 2     \* read/write calls per behaviour
MaxFaults == 2     \* departures of the peer and the transport per behaviour
StreamChunk == 100000   \* bytes a peer that keeps writing adds at a time

Callers      == {1, 2}
MainCaller   == {1}
Addresses    == {258}
AddressInputs == Addresses
DataInputs   == {42, 258}
WidthInputs  == DataSize \cup {3}
ShortReads   == {1, 2, 3, 4}
StatusBytes  == {IPC_OK, 1, IPC_FAIL}
BulkLengths  == {MAX_IPC_RETURN_SIZE, MAX_IPC_RETURN_SIZE + 1,
                 MAX_IPC_SIZE, MAX_IPC_SIZE + 1}
SlotInputs   == (-3 .. 40) \cup {DEFAULT_SLOT} \cup (65500 .. 65540)

NoSlot  == 0 - 1
NoValue == "None"
NoArgs  == [data_size |-> 0, address |-> 0, data |-> 0]
IntMax  == 1073741823 * 2 + 1

-----------------------------------------------------------------------------
(* bytes values, run-length encoded *)

RECURSIVE B_len(_)
B_len(s) == IF s = <<>> THEN 0 ELSE s[1].n + B_len(Tail(s))

B_cat(s, t) ==
    IF s = <<>> THEN t
    ELSE IF t = <<>> THEN s
    ELSE IF s[Len(s)].b = t[1].b
         THEN SubSeq(s, 1, Len(s) - 1)
                \o <<[b |-> t[1].b, n |-> s[Len(s)].n + t[1].n]>>
                \o Tail(t)
         ELSE s \o t

RECURSIVE B_take(_, _)
B_take(s, k) ==
    IF k <= 0 \/ s = <<>> THEN <<>>
    ELSE IF s[1].n <= k THEN <<s[1]>> \o B_take(Tail(s), k - s[1].n)
    ELSE <<[b |-> s[1].b, n |-> k]>>

RECURSIVE B_drop(_, _)
B_drop(s, k) ==
    IF k <= 0 \/ s = <<>> THEN s
    ELSE IF s[1].n <= k THEN B_drop(Tail(s), k - s[1].n)
    ELSE <<[b |-> s[1].b, n |-> s[1].n - k]>> \o Tail(s)

\* s[i] of Python, i counted from 0; only used with i < B_len(s)
RECURSIVE B_at(_, _)
B_at(s, i) == IF i < s[1].n THEN s[1].b ELSE B_at(Tail(s), i - s[1].n)

\* s[i:j] as a plain sequence of bytes, for i <= j <= B_len(s)
B_slice(s, i, j) == [k \in 1 .. (j - i) |-> B_at(s, i + k - 1)]

\* the bytes value of a plain sequence of bytes
RECURSIVE B_of(_)
B_of(q) == IF q = <<>> THEN <<>>
           ELSE B_cat(<<[b |-> q[1], n |-> 1]>>, B_of(Tail(q)))

\* the element of a set of one element.  {e(x) : x \in {v}} is e with x
\* bound to the value of v, computed once: it is used where a value is used
\* several times, in place of a LET, which is computed again at every use
\* when a formula is evaluated inside ENABLED.
one(S) == CHOOSE x \in S : TRUE

\* n zero bytes
B_zeros(n) == IF n <= 0 THEN <<>> ELSE <<[b |-> 0, n |-> n]>>

-----------------------------------------------------------------------------
(* The codec: to_array, from_array, _create_request *)

RECURSIVE shift_right(_, _)
shift_right(value, size) ==
    IF size = 0 THEN value ELSE shift_right(value \div 256, size - 1)

\* int.to_bytes(length=size, byteorder="little") raises OverflowError for a
\* negative value and for a value that needs more than `size` bytes
to_array_fits(value, size) == value >= 0 /\ shift_right(value, size) = 0

RECURSIVE to_array(_, _)
to_array(value, size) ==
    IF size = 0 THEN <<>>
    ELSE <<value % 256>> \o to_array(value \div 256, size - 1)

\* int.from_bytes(arr, byteorder="little"); `size` is ignored, as in the
\* source.  Values of 2^31 and more are reported as IntMax: the program only
\* compares the result with MAX_IPC_SIZE and with len(result), both far below.
RECURSIVE from_array(_, _)
from_array(arr, size) ==
    IF arr = <<>> THEN 0
    ELSE one({IF rest > (IntMax - arr[1]) \div 256 THEN IntMax
              ELSE arr[1] + 256 * rest
                : rest \in {from_array(Tail(arr), size)}})

\* the header with the address in front of the opcode
create_request_swapped(command, address, size) ==
    to_array(size, 4) \o to_array(address, 4) \o to_array(command, 1)

\* _create_request: size, command, address
create_request(command, address, size) ==
    to_array(size, 4) \o to_array(command, 1) \o to_array(address, 4)

-----------------------------------------------------------------------------
(* The constructor and _init_socket *)

\* the range check with its upper end excluded
slot_valid_open(s) == 0 < s /\ s < MAX_SLOT

\* __init__, the range check on the slot
slot_valid(s) == 0 < s /\ s <= MAX_SLOT

\* _init_socket: a new handle is created and connect() is tried on it; `ok`
\* is whether the peer accepts.  n, o, k are nsock, open and conn before.
init_socket(ok, n, o, k) ==
    [nsock      |-> n + 1,
     sock       |-> n + 1,
     open       |-> IF ok THEN o \cup {n + 1} ELSE o,
     conn       |-> IF ok THEN n + 1 ELSE k,
     sock_state |-> ok]

Cells == UNION {a .. (a + 7) : a \in Addresses}

IdleCalls ==
    /\ ncalls = 0
    /\ pc = [c \in Callers |-> "idle"]
    /\ op = [c \in Callers |-> "none"]
    /\ args = [c \in Callers |-> NoArgs]
    /\ request = [c \in Callers |-> <<>>]
    /\ end_length = [c \in Callers |-> 0]
    /\ result = [c \in Callers |-> <<>>]
    /\ connects = [c \in Callers |-> 0]
    /\ sends = [c \in Callers |-> 0]
    /\ ev = [c \in Callers |-> "none"]
    /\ outcome = [c \in Callers |-> "none"]
    /\ retval = [c \in Callers |-> NoValue]

FreshPeer ==
    /\ wire = <<>>
    /\ pending = <<>>
    /\ inbuf = <<>>
    /\ peer_closed = FALSE
    /\ mem = [x \in Cells |-> 0]
    /\ faults = 0

\* Before __init__ has run
InitNew ==
    /\ cls \in {"pycsx2", "pinethon"}
    /\ ctor = "new"
    /\ slot_arg = NoSlot
    /\ slot = NoSlot
    /\ buffers = FALSE
    /\ sock_state = FALSE
    /\ sock = 0
    /\ open = {}
    /\ nsock = 0
    /\ conn = 0
    /\ FreshPeer
    /\ IdleCalls

\* pycsx2.Pine.__init__(slot)
PycsxInit(s, ok) ==
    /\ cls = "pycsx2"
    /\ ctor = "new"
    /\ slot_arg' = s
    /\ IF ~slot_valid(s)
       THEN /\ ctor' = "InvalidSlot"
            /\ UNCHANGED <<slot, buffers, sock_state, sock, open, nsock, conn>>
       ELSE LET r == init_socket(ok, nsock, open, conn)
            IN  /\ ctor' = "ok"
                /\ slot' = s
                /\ buffers' = TRUE
                /\ sock_state' = r.sock_state
                /\ sock' = r.sock
                /\ open' = r.open
                /\ nsock' = r.nsock
                /\ conn' = r.conn
    /\ UNCHANGED <<cls, wire, pending, inbuf, peer_closed, mem, faults, ncalls>>
    /\ UNCHANGED call_vars

\* pinethon.Pine.__init__(slot): the same check, buffers, no socket
PinethonInit(s) ==
    /\ cls = "pinethon"
    /\ ctor = "new"
    /\ slot_arg' = s
    /\ IF ~slot_valid(s)
       THEN /\ ctor' = "InvalidSlot"
            /\ UNCHANGED <<slot, buffers>>
       ELSE /\ ctor' = "ok"
            /\ slot' = s
            /\ buffers' = TRUE
    /\ UNCHANGED <<cls, sock_state, sock, open, nsock, conn, wire, pending, inbuf,
                   peer_closed, mem, faults, ncalls>>
    /\ UNCHANGED call_vars

NextNew ==
    \/ \E s \in SlotInputs, ok \in BOOLEAN : PycsxInit(s, ok)
    \/ \E s \in SlotInputs : PinethonInit(s)

SpecNew == InitNew /\ [][NextNew]_vars

\* After pycsx2.Pine() with the default slot: connected or not
Init ==
    /\ cls = "pycsx2"
    /\ ctor = "ok"
    /\ slot_arg = DEFAULT_SLOT
    /\ slot = DEFAULT_SLOT
    /\ buffers = TRUE
    /\ \E ok \in BOOLEAN :
          LET r == init_socket(ok, 0, {}, 0)
          IN  /\ sock_state = r.sock_state
              /\ sock = r.sock
              /\ open = r.open
              /\ nsock = r.nsock
              /\ conn = r.conn
    /\ FreshPeer
    /\ IdleCalls

-----------------------------------------------------------------------------
(* The peer: the fake peer of the spec (a memory that stores writes and    *)
(* answers reads), and the ways a peer can depart from it                  *)

width_of(opcode) ==
    CASE opcode % 4 = 0 -> 1
      [] opcode % 4 = 1 -> 2
      [] opcode % 4 = 2 -> 4
      [] opcode % 4 = 3 -> 8

peer_decode(req) ==
    [opcode  |-> req[5],
     address |-> from_array(SubSeq(req, 6, 9), 4),
     payload |-> SubSeq(req, 10, Len(req))]

peer_load(m, address, w) ==
    [i \in 1 .. w |-> IF (address + i - 1) \in DOMAIN m THEN m[address + i - 1] ELSE 0]

peer_store(m, address, payload) ==
    [x \in DOMAIN m |->
        IF x >= address /\ x < address + Len(payload)
        THEN payload[x - address + 1] ELSE m[x]]

\* the reply frame with the given status: length, status, payload
reply_frame(status, payload) ==
    to_array(5 + Len(payload), 4) \o <<status>> \o payload

\* what the fake peer answers to req, and its memory afterwards
peer_answer(req, m) ==
    LET d == peer_decode(req)
    IN  IF d.opcode <= READ64
        THEN [frame |-> reply_frame(IPC_OK, peer_load(m, d.address, width_of(d.opcode))),
              mem   |-> m]
        ELSE [frame |-> reply_frame(IPC_OK, <<>>),
              mem   |-> peer_store(m, d.address, d.payload)]

ReplyKinds ==
    {<<"honest", IPC_OK>>}
      \cup {<<"status", st>> : st \in StatusBytes \ {IPC_OK}}
      \cup {<<"bulk", l>> : l \in BulkLengths}
      \cup {<<"short", 4>>}

\* the bytes the peer writes for a reply of the given kind
peer_bytes(kind, req, m) ==
    CASE kind[1] = "honest" -> B_of(peer_answer(req, m).frame)
      [] kind[1] = "status" ->
            LET f == peer_answer(req, m).frame
            IN  B_of(SubSeq(f, 1, 4) \o <<kind[2]>> \o SubSeq(f, 6, Len(f)))
      [] kind[1] = "bulk"   ->
            B_cat(B_of(to_array(kind[2], 4)), B_zeros(kind[2] - 4))
      [] kind[1] = "short"  -> B_of(to_array(kind[2], 4))
\* the number of bytes of a segment: n of ShortReads, or 0 for all of them
segment(n, total) == IF n = 0 \/ n >= total THEN total ELSE n

\* 1 when the peer departs from the fake peer in this step, else 0
reply_faults(kind, n, total) ==
    (IF kind[1] = "honest" THEN 0 ELSE 1) + (IF segment(n, total) < total THEN 1 ELSE 0)

\* The peer takes the oldest request and writes the first segment of a reply
PeerReply(kind, n) ==
    /\ conn # 0
    /\ ~peer_closed
    /\ wire # <<>>
    /\ pending = <<>>
    /\ LET bytes == peer_bytes(kind, Head(wire), mem)
           k     == segment(n, B_len(bytes))
       IN  /\ faults + reply_faults(kind, n, B_len(bytes)) <= MaxFaults
           /\ faults' = faults + reply_faults(kind, n, B_len(bytes))
           /\ inbuf' = B_cat(inbuf, B_take(bytes, k))
           /\ pending' = B_drop(bytes, k)
    /\ wire' = Tail(wire)
    /\ mem' = IF kind[1] = "honest" THEN peer_answer(Head(wire), mem).mem ELSE mem
    /\ UNCHANGED <<sock_state, sock, open, nsock, conn, peer_closed, ncalls>>
    /\ UNCHANGED client_vars
    /\ UNCHANGED call_vars

\* The peer writes the next segment of the reply it has begun
PeerFlush(n) ==
    /\ conn # 0
    /\ ~peer_closed
    /\ pending # <<>>
    /\ LET total == B_len(pending)
           k     == segment(n, total)
           f     == IF k < total THEN 1 ELSE 0
       IN  /\ faults + f <= MaxFaults
           /\ faults' = faults + f
           /\ inbuf' = B_cat(inbuf, B_take(pending, k))
           /\ pending' = B_drop(pending, k)
    /\ UNCHANGED <<sock_state, sock, open, nsock, conn, wire, peer_closed, mem, ncalls>>
    /\ UNCHANGED client_vars
    /\ UNCHANGED call_vars

\* The peer closes its end while a call waits for it; what it had written
\* is still delivered, the rest is not
PeerClose ==
    /\ conn # 0
    /\ ~peer_closed
    /\ \E c \in Callers : pc[c] = "recv"
    /\ faults < MaxFaults
    /\ faults' = faults + 1
    /\ peer_closed' = TRUE
    /\ wire' = <<>>
    /\ pending' = <<>>
    /\ UNCHANGED <<sock_state, sock, open, nsock, conn, inbuf, mem, ncalls>>
    /\ UNCHANGED client_vars
    /\ UNCHANGED call_vars

-----------------------------------------------------------------------------
(* read and write *)

read_command(data_size) ==
    CASE data_size = 1 -> READ8
      [] data_size = 2 -> READ16
      [] data_size = 4 -> READ32
      [] data_size = 8 -> READ64

write_command(data_size) ==
    CASE data_size = 1 -> WRITE8
      [] data_size = 2 -> WRITE16
      [] data_size = 4 -> WRITE32
      [] data_size = 8 -> WRITE64

\* a rejection that comes after the connectivity check
size_error_late(state) == IF ~state THEN "init" ELSE "idle"

\* `else: raise ValueError(...)`, before the connectivity check: where the
\* call is after it, whatever the connected flag
size_error(state) == "idle"

\* a call that never reconnects
needs_init_never(state) == FALSE

\* `if not self._sock_state: self._init_socket()`
needs_init(state) == ~state

\* a handler that closes the handle and leaves the flag as it is
send_error_flag_kept(state, o, h) ==
    [sock_state |-> state, open |-> o \ {h}, pc |-> "idle"]

\* a handler that goes back to the connectivity check instead of raising
send_error_retry(state, o, h) ==
    [sock_state |-> FALSE, open |-> o \ {h}, pc |-> "init"]

\* a handler that marks the client disconnected and keeps the handle open
send_error_leak(state, o, h) ==
    [sock_state |-> FALSE, open |-> o, pc |-> "idle"]

\* the handler of a failed sendall: close, mark disconnected, raise
send_error(state, o, h) ==
    [sock_state |-> FALSE, open |-> o \ {h}, pc |-> "idle"]

\* a timeout handled like a failed send
recv_timeout_close(state, o, h) ==
    [sock_state |-> FALSE, open |-> o \ {h}, pc |-> "idle"]

\* a timeout that is swallowed: the loop goes round again
recv_timeout_swallow(state, o, h) ==
    [sock_state |-> state, open |-> o, pc |-> "recv"]

\* the handler of a receive timeout: nothing but the raise
recv_timeout(state, o, h) ==
    [sock_state |-> state, open |-> o, pc |-> "idle"]

\* a break that keeps what was accumulated
recv_empty_keep(res) == res

\* `if len(response) <= 0: result = b''; break`
recv_empty(res) == <<>>

\* one pass of the receive loop over a non-empty chunk `response`
loop_pass(res, el, response) ==
    LET decode == el = 4 /\ B_len(response) >= 4
        \* the rest of the pass, given result after `result += response`
        decoded(acc) ==
            one({IF decode /\ el1 > MAX_IPC_SIZE
                 THEN [result |-> <<>>, end_length |-> el1, brk |-> TRUE]
                 ELSE [result |-> acc,  end_length |-> el1, brk |-> FALSE]
                   : el1 \in {IF decode THEN from_array(B_slice(acc, 0, 4), 4)
                              ELSE el}})
    IN  one({decoded(acc) : acc \in {B_cat(res, response)}})

\* the loop is left by a break or when `len(result) < end_length` is false
loop_exit(r) == r.brk \/ ~(B_len(r.result) < r.end_length)

\* The passes that follow a pass of RECV_SIZE bytes that did not end the
\* loop.  That pass decoded end_length if it was still 4, so the passes
\* after it only append: each takes RECV_SIZE bytes, or what is left, until
\* len(result) >= end_length.  They are taken in one step: the loop has then
\* consumed the least multiple of RECV_SIZE that reaches end_length, or all
\* of buf when buf holds less.
append_passes(res, el, buf) ==
    LET m   == (el - B_len(res) + RECV_SIZE - 1) \div RECV_SIZE
        k   == IF m * RECV_SIZE < B_len(buf) THEN m * RECV_SIZE ELSE B_len(buf)
        acc == B_cat(res, B_take(buf, k))
    IN  [result |-> acc, end_length |-> el, buf |-> B_drop(buf, k),
         exit |-> ~(B_len(acc) < el)]

\* the passes of the loop over the bytes `buf` (not empty) that have
\* arrived: each recv returns at most RECV_SIZE of them; it stops when the
\* loop is left (exit) or when recv has to wait
recv_loop(res, el, buf) ==
    LET n == IF B_len(buf) < RECV_SIZE THEN B_len(buf) ELSE RECV_SIZE
        \* what follows the first pass, which left r, with rest still to come
        after(r, rest) ==
            IF loop_exit(r) \/ rest = <<>>
            THEN [result |-> r.result, end_length |-> r.end_length, buf |-> rest,
                  exit |-> loop_exit(r)]
            ELSE append_passes(r.result, r.end_length, rest)
        first(response, rest) ==
            one({after(r, rest) : r \in {loop_pass(res, el, response)}})
    IN  one({first(response, rest) :
                response \in {B_take(buf, n)}, rest \in {B_drop(buf, n)}})

\* the checks after the loop and the return; result[4] of a result of 4
\* bytes or fewer raises IndexError
finish_call(o, res) ==
    IF B_len(res) = 0
    THEN [outcome |-> "InvalidResponse", retval |-> NoValue]
    ELSE IF B_len(res) <= 4
    THEN [outcome |-> "IndexError", retval |-> NoValue]
    ELSE IF B_at(res, 4) = IPC_FAIL
    THEN [outcome |-> "PeerReportedFailure", retval |-> NoValue]
    ELSE [outcome |-> "ok", retval |-> IF o = "read" THEN res ELSE NoValue]

\* the call of caller c ends with outcome out and value val
Return(c, out, val) ==
    /\ pc' = [pc EXCEPT ![c] = "idle"]
    /\ outcome' = [outcome EXCEPT ![c] = out]
    /\ retval' = [retval EXCEPT ![c] = val]

\* the start of a call: fresh locals
Enter(c, o, a) ==
    /\ ctor = "ok"
    /\ cls = "pycsx2"
    /\ pc[c] = "idle"
    /\ ncalls < MaxCalls
    /\ ncalls' = ncalls + 1
    /\ op' = [op EXCEPT ![c] = o]
    /\ args' = [args EXCEPT ![c] = a]
    /\ end_length' = [end_length EXCEPT ![c] = 0]
    /\ result' = [result EXCEPT ![c] = <<>>]
    /\ connects' = [connects EXCEPT ![c] = 0]
    /\ sends' = [sends EXCEPT ![c] = 0]
    /\ ev' = [ev EXCEPT ![c] = "none"]
    /\ UNCHANGED <<sock_state, sock, open, nsock, conn, wire, pending, inbuf,
                   peer_closed, mem, faults>>
    /\ UNCHANGED client_vars

\* read(data_size, address) up to the connectivity check
read_begin(c, data_size, address) ==
    /\ Enter(c, "read", [data_size |-> data_size, address |-> address, data |-> 0])
    /\ IF data_size \notin DataSize
       THEN /\ pc' = [pc EXCEPT ![c] = size_error(sock_state)]
            /\ outcome' = [outcome EXCEPT ![c] = "InvalidDataSize"]
            /\ retval' = [retval EXCEPT ![c] = NoValue]
            /\ request' = [request EXCEPT ![c] = <<>>]
       ELSE IF ~to_array_fits(address, 4)
       THEN /\ Return(c, "OverflowError", NoValue)
            /\ request' = [request EXCEPT ![c] = <<>>]
       ELSE /\ request' = [request EXCEPT ![c] =
                             create_request(read_command(data_size), address, 9)]
            /\ pc' = [pc EXCEPT ![c] = IF needs_init(sock_state) THEN "init" ELSE "send"]
            /\ outcome' = [outcome EXCEPT ![c] = "none"]
            /\ retval' = [retval EXCEPT ![c] = NoValue]

\* write(data_size, address, data) up to the connectivity check
write_begin(c, data_size, address, data) ==
    /\ Enter(c, "write", [data_size |-> data_size, address |-> address, data |-> data])
    /\ IF data_size \notin DataSize
       THEN /\ pc' = [pc EXCEPT ![c] = size_error(sock_state)]
            /\ outcome' = [outcome EXCEPT ![c] = "InvalidDataSize"]
            /\ retval' = [retval EXCEPT ![c] = NoValue]
            /\ request' = [request EXCEPT ![c] = <<>>]
       ELSE IF ~to_array_fits(address, 4) \/ ~to_array_fits(data, data_size)
       THEN /\ Return(c, "OverflowError", NoValue)
            /\ request' = [request EXCEPT ![c] = <<>>]
       ELSE /\ request' = [request EXCEPT ![c] =
                             create_request(write_command(data_size), address,
                                            9 + data_size)
                               \o to_array(data, data_size)]
            /\ pc' = [pc EXCEPT ![c] = IF needs_init(sock_state) THEN "init" ELSE "send"]
            /\ outcome' = [outcome EXCEPT ![c] = "none"]
            /\ retval' = [retval EXCEPT ![c] = NoValue]

\* self._init_socket() of a call that found the client disconnected
InitSocket(c, ok) ==
    /\ pc[c] = "init"
    /\ ok \/ faults < MaxFaults
    /\ faults' = IF ok THEN faults ELSE faults + 1
    /\ LET r == init_socket(ok, nsock, open, conn)
       IN  /\ sock_state' = r.sock_state
           /\ sock' = r.sock
           /\ open' = r.open
           /\ nsock' = r.nsock
           /\ conn' = r.conn
    /\ IF ok
       THEN wire' = <<>> /\ pending' = <<>> /\ inbuf' = <<>> /\ peer_closed' = FALSE
       ELSE UNCHANGED <<wire, pending, inbuf, peer_closed>>
    /\ connects' = [connects EXCEPT ![c] = @ + 1]
    /\ ev' = [ev EXCEPT ![c] = IF ok THEN "connect_ok" ELSE "connect_fail"]
    /\ pc' = [pc EXCEPT ![c] = "send"]
    /\ UNCHANGED <<mem, ncalls, op, args, request, end_length, result,
                   sends, outcome, retval>>
    /\ UNCHANGED client_vars

\* self._sock.sendall(request): it can only succeed on an open handle whose
\* connection is up; on such a handle it may fail as well
Send(c, ok) ==
    /\ pc[c] = "send"
    /\ LET usable == sock \in open /\ sock = conn
       IN  /\ ok => usable
           /\ (~ok /\ usable) => faults < MaxFaults
           /\ faults' = IF ~ok /\ usable THEN faults + 1 ELSE faults
    /\ sends' = [sends EXCEPT ![c] = @ + 1]
    /\ IF ok
       THEN /\ wire' = Append(wire, request[c])
            /\ end_length' = [end_length EXCEPT ![c] = 4]
            /\ result' = [result EXCEPT ![c] = <<>>]
            /\ ev' = [ev EXCEPT ![c] = "send_ok"]
            /\ pc' = [pc EXCEPT ![c] = "recv"]
            /\ UNCHANGED <<sock_state, open, conn, pending, inbuf, peer_closed,
                           outcome, retval>>
       ELSE LET r  == send_error(sock_state, open, sock)
                up == conn \in r.open
            IN  /\ sock_state' = r.sock_state
                /\ open' = r.open
                /\ conn' = IF up THEN conn ELSE 0
                /\ wire' = IF up THEN wire ELSE <<>>
                /\ pending' = IF up THEN pending ELSE <<>>
                /\ inbuf' = IF up THEN inbuf ELSE <<>>
                /\ peer_closed' = (up /\ peer_closed)
                /\ ev' = [ev EXCEPT ![c] = "send_fail"]
                /\ IF r.pc = "idle"
                   THEN Return(c, "ConnectionLost", NoValue)
                   ELSE /\ pc' = [pc EXCEPT ![c] = r.pc]
                        /\ UNCHANGED <<outcome, retval>>
                /\ UNCHANGED <<end_length, result>>
    /\ UNCHANGED <<sock, nsock, mem, ncalls, op, args, request, connects>>
    /\ UNCHANGED client_vars

\* self._sock.recv(4096) returns bytes: the passes of the loop over what has
\* arrived, and the checks after the loop when a pass ends it
RecvData(c) ==
    /\ pc[c] = "recv"
    /\ sock \in open
    /\ sock = conn
    /\ inbuf # <<>>
    /\ \E r \in {recv_loop(result[c], end_length[c], inbuf)} :
       LET f == finish_call(op[c], r.result)
       IN  /\ result' = [result EXCEPT ![c] = r.result]
           /\ end_length' = [end_length EXCEPT ![c] = r.end_length]
           /\ inbuf' = r.buf
           /\ IF r.exit
              THEN /\ Return(c, f.outcome, f.retval)
              ELSE UNCHANGED <<pc, outcome, retval>>
    /\ ev' = [ev EXCEPT ![c] = "recv_data"]
    /\ UNCHANGED <<sock_state, sock, open, nsock, conn, wire, pending, peer_closed,
                   mem, faults, ncalls, op, args, request, connects, sends>>
    /\ UNCHANGED client_vars

\* recv returns b'': the peer closed and nothing is left to deliver
RecvEOF(c) ==
    /\ pc[c] = "recv"
    /\ sock \in open
    /\ sock = conn
    /\ inbuf = <<>>
    /\ peer_closed
    /\ LET res == recv_empty(result[c])
           f   == finish_call(op[c], res)
       IN  /\ result' = [result EXCEPT ![c] = res]
           /\ Return(c, f.outcome, f.retval)
    /\ ev' = [ev EXCEPT ![c] = "recv_eof"]
    /\ UNCHANGED <<sock_state, sock, open, nsock, conn, wire, pending, inbuf,
                   peer_closed, mem, faults, ncalls, op, args, request,
                   end_length, connects, sends>>
    /\ UNCHANGED client_vars

\* recv raises TimeoutError, no byte came within the timeout: what the call
\* does then
timeout_raised(c) ==
    /\ pc[c] = "recv"
    /\ sock \in open
    /\ sock = conn
    /\ inbuf = <<>>
    /\ ~peer_closed
    /\ LET r  == recv_timeout(sock_state, open, sock)
           up == conn \in r.open
       IN  /\ sock_state' = r.sock_state
           /\ open' = r.open
           /\ conn' = IF up THEN conn ELSE 0
           /\ wire' = IF up THEN wire ELSE <<>>
           /\ pending' = IF up THEN pending ELSE <<>>
    /\ ev' = [ev EXCEPT ![c] = "recv_timeout"]
    /\ IF recv_timeout(sock_state, open, sock).pc = "idle"
       THEN Return(c, "ResponseTimeout", NoValue)
       ELSE UNCHANGED <<pc, outcome, retval>>
    /\ UNCHANGED <<sock, nsock, inbuf, peer_closed, mem, ncalls, op, args,
                   request, end_length, result, connects, sends>>
    /\ UNCHANGED client_vars

\* a timeout, counted as a departure of the peer
RecvTimeout(c) ==
    /\ faults < MaxFaults
    /\ faults' = faults + 1
    /\ timeout_raised(c)

\* recv raises another socket.error (the connection was reset, or the handle
\* is not usable): read and write do not catch it
RecvError(c) ==
    /\ pc[c] = "recv"
    /\ faults < MaxFaults
    /\ faults' = faults + 1
    /\ conn' = IF sock = conn THEN 0 ELSE conn
    /\ wire' = IF sock = conn THEN <<>> ELSE wire
    /\ pending' = IF sock = conn THEN <<>> ELSE pending
    /\ inbuf' = IF sock = conn THEN <<>> ELSE inbuf
    /\ peer_closed' = (sock # conn /\ peer_closed)
    /\ ev' = [ev EXCEPT ![c] = "recv_error"]
    /\ Return(c, "TransportError", NoValue)
    /\ UNCHANGED <<sock_state, sock, open, nsock, mem, ncalls, op, args,
                   request, end_length, result, connects, sends>>
    /\ UNCHANGED client_vars

Segments == ShortReads \cup {0}

Next ==
    \/ \E c \in MainCaller, w \in WidthInputs, a \in AddressInputs :
          read_begin(c, w, a)
    \/ \E c \in MainCaller, w \in WidthInputs, a \in AddressInputs, d \in DataInputs :
          write_begin(c, w, a, d)
    \/ \E c \in MainCaller, ok \in BOOLEAN : InitSocket(c, ok)
    \/ \E c \in MainCaller, ok \in BOOLEAN : Send(c, ok)
    \/ \E c \in MainCaller : RecvData(c)
    \/ \E c \in MainCaller : RecvEOF(c)
    \/ \E c \in MainCaller : RecvTimeout(c)
    \/ \E c \in MainCaller : RecvError(c)
    \/ \E kind \in ReplyKinds, n \in Segments : PeerReply(kind, n)
    \/ \E n \in Segments : PeerFlush(n)
    \/ PeerClose

Spec == Init /\ [][Next]_vars

-----------------------------------------------------------------------------
(* Claims *)

Typed == {"InvalidDataSize", "ConnectionLost", "ResponseTimeout",
          "InvalidResponse", "PeerReportedFailure"}

\* the call of caller c has ended in the checks after the receive loop
Framed(c) == pc[c] = "idle" /\ ev[c] = "recv_data"

\* C1: a successful read returns the payload of the frame it received, the
\* bytes from offset 5 up to the declared length, without length and status.
C1_ReadReturnsPayload ==
    \A c \in Callers :
        (pc[c] = "idle" /\ op[c] = "read" /\ outcome[c] = "ok") =>
            retval[c] = B_drop(B_take(result[c],
                                      from_array(B_slice(result[c], 0, 4), 4)), 5)

\* C2: with a peer that behaves as the fake peer, whose memory only writes
\* change, a write has stored its value when it returns, and a read returns
\* the value stored at its address: a read that follows a write of the same
\* width to the same address returns the written value.
C2_WriteThenRead ==
    \A c \in Callers :
        /\ (pc[c] = "idle" /\ op[c] = "write" /\ outcome[c] = "ok" /\ faults = 0) =>
               peer_load(mem, args[c].address, args[c].data_size)
                   = to_array(args[c].data, args[c].data_size)
        /\ (pc[c] = "idle" /\ op[c] = "read" /\ outcome[c] = "ok" /\ faults = 0) =>
               retval[c] = B_of(peer_load(mem, args[c].address, args[c].data_size))

\* C3: a call succeeds only if the status byte of the frame is OK, and a
\* frame with any other status byte makes it fail with PeerReportedFailure.
C3_StatusMustBeOK ==
    \A c \in Callers :
        /\ (pc[c] = "idle" /\ outcome[c] = "ok") =>
               (B_len(result[c]) >= 5 /\ B_at(result[c], 4) = IPC_OK)
        /\ (Framed(c) /\ B_len(result[c]) >= 5 /\ B_at(result[c], 4) # IPC_OK) =>
               (outcome[c] = "PeerReportedFailure" /\ retval[c] = NoValue)

\* C4: a declared length above the maximum response size, 450000, is
\* rejected as soon as it is decoded: the call has failed with the
\* invalid-response error and holds no bytes.
C4_MaxReturnSize ==
    \A c \in Callers :
        end_length[c] > MAX_IPC_RETURN_SIZE =>
            (pc[c] = "idle" /\ outcome[c] = "InvalidResponse" /\ result[c] = <<>>)

C6_SendFailure ==
    [][\A c \in Callers :
        /\ (pc[c] = "send" /\ ev'[c] = "send_fail") =>
               /\ pc'[c] = "idle"
               /\ outcome'[c] = "ConnectionLost"
               /\ retval'[c] = NoValue
               /\ ~sock_state'
               /\ sock' \notin open'
               /\ wire' = <<>>
        /\ (pc[c] = "idle" /\ ev[c] = "send_fail" /\ pc'[c] # "idle") =>
               (pc'[c] = "init" /\ sends'[c] = 0)
        /\ (pc[c] = "init" /\ pc'[c] # "init") =>
               (pc'[c] = "send" /\ connects'[c] = 1 /\ sends'[c] = 0)
      ]_vars

\* the second call is about to reconnect after the first lost the
\* connection made by the constructor in its send
C6_Witness ==
    /\ ncalls = 2 /\ pc[1] = "init"
    /\ nsock = 1 /\ open = {} /\ ~sock_state /\ faults = 1

\* C7: a call made while disconnected tries to connect before it sends.  If
\* the attempt succeeds the client is connected and the request goes out on
\* the new handle; if it fails the client stays disconnected, the call
\* fails with ConnectionLost, and the call after it tries again.
C7_Reconnect ==
    [][\A c \in Callers :
        /\ (pc[c] = "idle" /\ pc'[c] # "idle" /\ ~sock_state) =>
               (pc'[c] = "init" /\ sends'[c] = 0 /\ wire' = wire)
        /\ (pc[c] = "init" /\ ev'[c] = "connect_ok") =>
               /\ sock_state'
               /\ sock' = nsock' /\ nsock' = nsock + 1
               /\ sock' \in open' /\ conn' = sock'
               /\ pc'[c] = "send" /\ connects'[c] = 1 /\ sends'[c] = 0
        /\ (pc[c] = "send" /\ ev[c] = "connect_ok" /\ ev'[c] = "send_ok") =>
               (sock = nsock /\ conn = sock /\ wire' = <<request[c]>>)
        /\ (pc[c] = "init" /\ ev'[c] = "connect_fail") =>
               /\ ~sock_state'
               /\ sock' \notin open'
               /\ pc'[c] = "send" /\ connects'[c] = 1 /\ sends'[c] = 0
        /\ (pc[c] = "send" /\ ev[c] = "connect_fail") =>
               /\ pc'[c] = "idle"
               /\ outcome'[c] = "ConnectionLost"
               /\ ~sock_state'
               /\ wire' = wire
      ]_vars

\* constructed disconnected, the first call failed to connect, the second
\* call has connected
C7_Witness ==
    /\ ncalls = 2 /\ pc[1] = "send" /\ ev[1] = "connect_ok"
    /\ nsock = 3 /\ sock_state /\ open = {3} /\ faults = 1

\* C8: a receive that returns no bytes makes the call fail with the
\* invalid-response error and return nothing, whatever was accumulated.
C8_EmptyResponse ==
    \A c \in Callers :
        ev[c] = "recv_eof" =>
            /\ pc[c] = "idle"
            /\ outcome[c] = "InvalidResponse"
            /\ retval[c] = NoValue
            /\ result[c] = <<>>

\* the peer closed after the length field of a reply to a 64-bit read
C8_Witness ==
    /\ ev[1] = "recv_eof" /\ op[1] = "read" /\ end_length[1] = 13
    /\ outcome[1] = "InvalidResponse"

\* C9: a receive timeout ends the call with ResponseTimeout and leaves the
\* connected flag and the handle as they were; the call that follows sends
\* without going through _init_socket.
C9_Timeout ==
    [][\A c \in Callers :
        /\ (pc[c] = "recv" /\ ev'[c] = "recv_timeout") =>
               /\ pc'[c] = "idle"
               /\ outcome'[c] = "ResponseTimeout"
               /\ retval'[c] = NoValue
               /\ sock_state' = sock_state
               /\ sock' = sock
               /\ open' = open
               /\ conn' = conn
        /\ (pc[c] = "idle" /\ ev[c] = "recv_timeout" /\ pc'[c] # "idle") =>
               (pc'[c] = "send" /\ connects'[c] = 0)
      ]_vars

\* the second call is about to send, without a reconnect, while the request
\* of the first, which timed out, is still unanswered
C9_Witness ==
    /\ ncalls = 2 /\ pc[1] = "send" /\ connects[1] = 0
    /\ wire # <<>> /\ faults = 1 /\ sock_state /\ sock \in open

\* C10: a call that ends in the checks after the receive loop succeeds or
\* fails with an error of the taxonomy, whatever bytes came in whatever
\* pieces: the status byte is only looked at in a result of 5 bytes or more.
C10_TypedOutcomes ==
    \A c \in Callers :
        Framed(c) => outcome[c] \in Typed \cup {"ok"}

\* C11: a write with a supported width never fails on the encoding of its
\* value: the request is built, its payload is the value modulo
\* 2^(8 * width) in little-endian order, and the call goes on to the send.
C11_WriteTruncates ==
    \A c \in Callers :
        (op[c] = "write" /\ args[c].data_size \in DataSize
            /\ to_array_fits(args[c].address, 4)) =>
            /\ outcome[c] # "OverflowError"
            /\ request[c] # <<>>
            /\ SubSeq(request[c], 10, Len(request[c]))
                   = to_array(args[c].data, args[c].data_size)
            /\ (pc[c] = "idle" => sends[c] = 1)

\* C12: a call with an unsupported width ends at once with InvalidDataSize:
\* it makes no connect attempt, sends nothing, and leaves the connected
\* flag, the handle and the link as they were, connected or not.
C12_InvalidDataSize ==
    [][\A c \in Callers :
        (pc[c] = "idle" /\ ncalls' = ncalls + 1 /\ op'[c] \in {"read", "write"}
            /\ args'[c].data_size \notin DataSize) =>
            /\ pc'[c] = "idle"
            /\ outcome'[c] = "InvalidDataSize"
            /\ retval'[c] = NoValue
            /\ connects'[c] = 0
            /\ sends'[c] = 0
            /\ UNCHANGED <<sock_state, sock, open, nsock, conn, wire>>
      ]_vars

\* a call with width 3 was rejected while the client was disconnected, and
\* no handle was created after the one of the constructor
C12_Witness ==
    /\ pc[1] = "idle" /\ outcome[1] = "InvalidDataSize" /\ args[1].data_size = 3
    /\ ~sock_state /\ nsock = 1 /\ open = {} /\ wire = <<>>

-----------------------------------------------------------------------------
(* Two threads that call read and write on one client.  The methods take   *)
(* no lock, so the steps of the two calls interleave at every blocking     *)
(* socket operation.  Each thread makes one call, and the peer answers as  *)
(* the fake peer does, each reply in one piece, or closes.                 *)

\* the thread c has not made its call yet
Fresh(c) == op[c] = "none"

Next2 ==
    \/ \E c \in Callers, w \in WidthInputs, a \in AddressInputs :
          Fresh(c) /\ read_begin(c, w, a)
    \/ \E c \in Callers, w \in WidthInputs, a \in AddressInputs, d \in DataInputs :
          Fresh(c) /\ write_begin(c, w, a, d)
    \/ \E c \in Callers, ok \in BOOLEAN : InitSocket(c, ok)
    \/ \E c \in Callers, ok \in BOOLEAN : Send(c, ok)
    \/ \E c \in Callers : RecvData(c)
    \/ \E c \in Callers : RecvEOF(c)
    \/ \E c \in Callers : RecvTimeout(c)
    \/ \E c \in Callers : RecvError(c)
    \/ PeerReply(<<"honest", IPC_OK>>, 0)
    \/ PeerClose

Spec2 == Init /\ [][Next2]_vars

\* C13: calls on one client are serialized: while one caller waits for its
\* response no other caller has sent a request, so at most one request is
\* unanswered, and with a peer that behaves a read returns to its caller the
\* frame that answers its own request.
C13_Serialized ==
    /\ \A c1, c2 \in Callers :
          (c1 # c2) => ~(pc[c1] = "recv" /\ pc[c2] = "recv")
    /\ Len(wire) <= 1
    /\ \A c \in Callers :
          (pc[c] = "idle" /\ op[c] = "read" /\ outcome[c] = "ok" /\ faults = 0) =>
              B_len(result[c]) = 5 + args[c].data_size

-----------------------------------------------------------------------------
(* Claims on framing, faults and retries *)

\* the length field of a result of 4 bytes or more
declared(res) == from_array(B_slice(res, 0, 4), 4)

\* C14: however the reply is cut into chunks, the required length is the
\* one decoded from the first 4 bytes once the result holds 4 bytes, and a
\* call succeeds only with a result of at least that many bytes.
C14_WholeFrame ==
    \A c \in Callers :
        /\ (pc[c] = "recv" /\ B_len(result[c]) >= 4) =>
               end_length[c] = declared(result[c])
        /\ (Framed(c) /\ outcome[c] = "ok") =>
               /\ B_len(result[c]) >= 4
               /\ end_length[c] = declared(result[c])
               /\ B_len(result[c]) >= declared(result[c])

\* C15: after a fault on the receive side (recv returned no bytes, recv
\* raised a transport error, or the declared length was over the bound) the
\* handle is closed and the client is disconnected.
C15_RecvFaultDisconnects ==
    \A c \in Callers :
        (pc[c] = "idle"
            /\ \/ ev[c] \in {"recv_eof", "recv_error"}
               \/ (ev[c] = "recv_data" /\ end_length[c] > MAX_IPC_SIZE)) =>
            (~sock_state /\ sock \notin open)

\* the steps that end in a failed send or a failed receive
FailEvents == {"send_fail", "recv_eof", "recv_timeout", "recv_error"}

\* C16: a call makes at most one connect attempt and at most one send, and
\* the step in which its send or its receive fails ends the call with an
\* error: nothing is sent and no handle is created in that step.
C16_NoRetry ==
    [][\A c \in Callers :
        /\ connects'[c] <= 1
        /\ sends'[c] <= 1
        /\ (pc[c] # "idle" /\ ev'[c] \in FailEvents) =>
               /\ pc'[c] = "idle"
               /\ outcome'[c] \notin {"ok", "none"}
               /\ Len(wire') <= Len(wire)
               /\ nsock' = nsock
               /\ connects'[c] = connects[c]
      ]_vars

\* a call that connected, sent its request and then timed out
C16_Witness ==
    /\ pc[1] = "idle" /\ connects[1] = 1 /\ sends[1] = 1
    /\ ev[1] = "recv_timeout" /\ outcome[1] = "ResponseTimeout"

\* the opcode of a call of the given kind and width
opcode_of(o, data_size) ==
    IF o = "read" THEN read_command(data_size) ELSE write_command(data_size)

\* the request req is the frame of the wire format for the call o(a)
well_formed(req, o, a) ==
    /\ Len(req) = (IF o = "read" THEN 9 ELSE 9 + a.data_size)
    /\ from_array(SubSeq(req, 1, 4), 4) = Len(req)
    /\ req[5] = opcode_of(o, a.data_size)
    /\ req[5] = (IF o = "read" THEN 0 ELSE 4)
                  + (CASE a.data_size = 1 -> 0 [] a.data_size = 2 -> 1
                       [] a.data_size = 4 -> 2 [] a.data_size = 8 -> 3)
    /\ from_array(SubSeq(req, 6, 9), 4) = a.address
    /\ \A i \in 1 .. 9 : req[i] \in 0 .. 255
    /\ o = "write" =>
          /\ from_array(SubSeq(req, 10, Len(req)), a.data_size) = a.data
          /\ \A i \in 10 .. Len(req) : req[i] \in 0 .. 255

\* C17: the request a call holds once it is past its encoding, and every
\* request it puts on the wire, is the frame of the wire format: length
\* field equal to the number of bytes (9, or 9 + w for a write), the opcode
\* of the operation and width, the address and, for a write, the value, all
\* little-endian.
C17_RequestFormat ==
    /\ \A c \in Callers :
          pc[c] # "idle" => well_formed(request[c], op[c], args[c])
    /\ \A i \in DOMAIN wire :
          \E o \in {"read", "write"}, w \in DataSize, a \in AddressInputs,
             d \in DataInputs :
                well_formed(wire[i], o, [data_size |-> w, address |-> a, data |-> d])
    /\ \A c \in Callers :
          (pc[c] = "recv" /\ wire # <<>>) => wire[Len(wire)] = request[c]

\* a 16-bit write of 258 is on the wire: 0B 00 00 00 05 02 01 00 00 02 01
C17_Witness ==
    /\ pc[1] = "recv"
    /\ wire = << <<11, 0, 0, 0, 5, 2, 1, 0, 0, 2, 1>> >>

-----------------------------------------------------------------------------
(* A slow peer: it answers every request as the fake peer does, in one     *)
(* piece, but it may take longer than the receive timeout.  Nothing else   *)
(* goes wrong: connects and sends succeed and the peer stays.              *)

NextLate ==
    \/ \E c \in MainCaller, w \in WidthInputs, a \in AddressInputs :
          read_begin(c, w, a)
    \/ \E c \in MainCaller, w \in WidthInputs, a \in AddressInputs, d \in DataInputs :
          write_begin(c, w, a, d)
    \/ \E c \in MainCaller : InitSocket(c, TRUE)
    \/ \E c \in MainCaller : Send(c, TRUE)
    \/ \E c \in MainCaller : RecvData(c)
    \/ \E c \in MainCaller : RecvTimeout(c)
    \/ PeerReply(<<"honest", IPC_OK>>, 0)

SpecLate == Init /\ [][NextLate]_vars

\* C18: a call that succeeds has accepted the reply to its own request: the
\* peer has taken that request, no older one is left unanswered, and the
\* frame is the fake peer's answer to it, also when an earlier call on the
\* connection timed out.
C18_OwnReply ==
    \A c \in Callers :
        (Framed(c) /\ outcome[c] = "ok") =>
            /\ wire = <<>>
            /\ result[c] = B_of(peer_answer(request[c], mem).frame)

-----------------------------------------------------------------------------
(* Termination.  Every blocking socket call of the client returns or times *)
(* out, so a receive may time out however often the peer has departed      *)
(* before, and the peer may go on writing bytes for as long as a call      *)
(* receives.  One call is followed from its start to its end.              *)

\* a timeout when the count of departures is at its bound
RecvTimeoutLate(c) ==
    /\ faults = MaxFaults
    /\ UNCHANGED faults
    /\ timeout_raised(c)

\* the peer writes StreamChunk more bytes, part of no reply
PeerStream ==
    /\ conn # 0
    /\ ~peer_closed
    /\ \E c \in Callers : pc[c] = "recv"
    /\ inbuf = <<>>
    /\ pending = <<>>
    /\ inbuf' = B_zeros(StreamChunk)
    /\ UNCHANGED <<sock_state, sock, open, nsock, conn, wire, pending, peer_closed,
                   mem, faults, ncalls>>
    /\ UNCHANGED client_vars
    /\ UNCHANGED call_vars

NextFair ==
    \/ \E c \in MainCaller, w \in WidthInputs, a \in AddressInputs :
          Fresh(c) /\ read_begin(c, w, a)
    \/ \E c \in MainCaller, w \in WidthInputs, a \in AddressInputs, d \in DataInputs :
          Fresh(c) /\ write_begin(c, w, a, d)
    \/ \E c \in MainCaller, ok \in BOOLEAN : InitSocket(c, ok)
    \/ \E c \in MainCaller, ok \in BOOLEAN : Send(c, ok)
    \/ \E c \in MainCaller : RecvData(c)
    \/ \E c \in MainCaller : RecvEOF(c)
    \/ \E c \in MainCaller : RecvTimeout(c)
    \/ \E c \in MainCaller : RecvTimeoutLate(c)
    \/ \E c \in MainCaller : RecvError(c)
    \/ \E kind \in ReplyKinds \cup {<<"short", MAX_IPC_SIZE>>}, n \in Segments :
          PeerReply(kind, n)
    \/ \E n \in Segments : PeerFlush(n)
    \/ PeerClose
    \/ PeerStream

\* the blocking calls of a call in progress return
Returns(c) ==
    /\ WF_vars(\E ok \in BOOLEAN : InitSocket(c, ok))
    /\ WF_vars(\E ok \in BOOLEAN : Send(c, ok))
    /\ WF_vars(RecvData(c) \/ RecvEOF(c) \/ RecvTimeout(c) \/ RecvTimeoutLate(c)
                 \/ RecvError(c))

SpecFair == Init /\ [][NextFair]_vars /\ \A c \in MainCaller : Returns(c)

\* C19: every call ends.  While a call receives, its result is shorter than
\* the target length, which is 4 or a decoded value of at most MAX_IPC_SIZE;
\* a receive that does not end the call makes the result longer and leaves a
\* decoded target as it is.
C19_Terminates ==
    /\ [](\A c \in Callers :
             pc[c] = "recv" =>
                 /\ B_len(result[c]) < end_length[c]
                 /\ end_length[c] <= MAX_IPC_SIZE)
    /\ [][\A c \in Callers :
             (RecvData(c) /\ pc'[c] = "recv") =>
                 /\ B_len(result'[c]) > B_len(result[c])
                 /\ (end_length[c] # 4 => end_length'[c] = end_length[c])
         ]_vars
    /\ \A c \in MainCaller : (pc[c] # "idle") ~> (pc[c] = "idle")

\* a call has ended after it received a frame of MAX_IPC_SIZE bytes or more
\* from a peer that kept writing
C19_Witness ==
    /\ pc[1] = "idle" /\ ev[1] = "recv_data"
    /\ end_length[1] = MAX_IPC_SIZE /\ B_len(result[1]) >= MAX_IPC_SIZE
    /\ inbuf # <<>>

-----------------------------------------------------------------------------
(* Handles *)

\* C20: after construction the client has at most one open handle, and it
\* is the one self._sock names; the connected flag is false exactly when
\* that handle is closed; a handle is created only while the flag is false,
\* and a step that clears the flag leaves the handle closed.
C20_OneHandle ==
    /\ [](/\ Cardinality(open) <= 1
          /\ open \subseteq {sock}
          /\ ~sock_state <=> sock \notin open)
    /\ [][/\ nsock' # nsock => (~sock_state /\ nsock' = nsock + 1 /\ open = {})
          /\ (sock_state /\ ~sock_state') => (sock' = sock /\ open' = {})
        ]_vars

\* the constructor's handle was closed after a failed send, the next call
\* failed to connect, and the call after it holds the third handle, the
\* only one open
C20_Witness ==
    /\ nsock = 3 /\ sock = 3 /\ open = {3} /\ sock_state /\ pc[1] = "recv"

=============================================================================
